---- MODULE Spec2Model ----
(***************************************************************************)
(* A-View: the cache-and-conversion pipeline (app/core/convert_lib.py,     *)
(* app/core/view_lib.py), the cache routes (app/endpoints/cache_routes.py) *)
(* and the retention sweep (app/core/utils_safe.py) as one state machine.  *)
(* Time is the wall clock in seconds; files are records in one file system *)
(* function; the cache index is the redis key space.                       *)
(***************************************************************************)
EXTENDS Integers, FiniteSets, Sequences, TLC

(***************************************************************************)
(* Bounds of the model.                                                    *)
(***************************************************************************)
\* wall-clock reading when the process starts
T0 == 86402
\* number of clock advances in one behaviour
MaxTicks == 2
\* number of requests the HTTP layer starts in one behaviour
MaxCalls == 2

(***************************************************************************)
(* Program constants.                                                      *)
(***************************************************************************)
\* max_age_seconds = max_age_hours * 3600
SecondsPerHour == 3600
\* subprocess.run(cmd, ..., timeout=60)
SubprocessTimeout == 60
\* cleanup_old_cache_files_safe(max_age_hours=24, timeout_seconds=300)
DailyMaxAgeHours == 24
DailyTimeoutSeconds == 300
\* redis TTL of an index record
CacheTtl == 86400

\* parameters a caller of the sweep passes
MaxAgeChoices == {1, DailyMaxAgeHours}
TimeoutChoices == {1, DailyTimeoutSeconds}
\* amounts by which the clock advances between two steps: a second, and just
\* over the converter timeout
Overrun == SubprocessTimeout + 1
ClockSteps == {1, Overrun}

(***************************************************************************)
(* Sources, file names, fingerprints, paths.                               *)
(***************************************************************************)
\* /data/./a.docx is another spelling of /data/a.docx
LocalPaths == {"/data/a.docx", "/data/./a.docx", "/data/b.csv", "/data/x.exe",
               "/data/none.docx"}
\* /x and /p name no file type; the server names the file in the
\* Content-Disposition header of its answer
Urls == {"http://h/r.docx", "http://h/x", "http://h/p"}
\* Optional[str]: no value
None == ""
Sources == LocalPaths \cup Urls
Formats == {"pdf", "html"}

\* file_ext_definition.py: VIEWABLE_EXTENSION
TEXT_BASE_EXTENSION == {".txt", ".md"}
IMAGE_BASE_EXTENSION == {".png", ".jpg", ".jpeg", ".gif", ".bmp", ".tiff", ".webp"}
OFFICE_BASE_EXTENSION == {".doc", ".docx", ".odt", ".rtf", ".xls", ".xlsx", ".ods",
                          ".ppt", ".pptx", ".odp"}
DOCUMENT_BASE_EXTENSION == {".pdf", ".csv"}
SUPPORTED_EXTENSIONS == TEXT_BASE_EXTENSION \cup IMAGE_BASE_EXTENSION
                          \cup OFFICE_BASE_EXTENSION \cup DOCUMENT_BASE_EXTENSION

\* Path(name).suffix.lower() of the file names that occur
Suffix(name) ==
    CASE name \in {"a.docx", "r.docx", "none.docx"} -> ".docx"
      [] name = "b.csv" -> ".csv"
      [] name = "p.pdf" -> ".pdf"
      [] name = "x.exe" -> ".exe"
      [] OTHER -> ""

\* Path(path).name / url.split('/')[-1].split('?')[0]
BaseName(src) ==
    CASE src = "/data/a.docx" -> "a.docx"
      [] src = "/data/./a.docx" -> "a.docx"
      [] src = "/data/b.csv" -> "b.csv"
      [] src = "/data/x.exe" -> "x.exe"
      [] src = "/data/none.docx" -> "none.docx"
      [] src = "http://h/r.docx" -> "r.docx"
      [] src = "http://h/x" -> "x"
      [] src = "http://h/p" -> "p"
      [] OTHER -> "downloaded_file"

\* response.headers.get('content-disposition'), the file name in it
ContentDisposition(url) ==
    CASE url = "http://h/x" -> "x.exe"
      [] url = "http://h/p" -> "p.pdf"
      [] OTHER -> None

\* the original file name resolve works with: the name of the local file;
\* the name in Content-Disposition, or else the last part of the URL
\* (convert_lib.py 105-110, 139-146, 196)
FileName(src) ==
    IF src \in Urls /\ ContentDisposition(src) # None
    THEN ContentDisposition(src) ELSE BaseName(src)

\* str(Path(path).resolve()): the absolute path without "." parts and links
ResolvePath_raw(path) == path
ResolvePath(path) == IF path = "/data/./a.docx" THEN "/data/a.docx" ELSE path
\* the string the fingerprint is taken of: the url as given, the resolved
\* path (convert_lib.py 113, 199; cache_routes.py 121)
Source(url, path) == IF url # None THEN url ELSE ResolvePath(path)
SourceOf(src) == IF src \in Urls THEN src ELSE ResolvePath(src)

\* hashlib.md5(s.encode()).hexdigest(): one digest per string
md5(s) == <<"md5", s>>
Digests == {md5(s) : s \in Sources}

\* generate_cache_key
generate_cache_key(url) == <<"aview:file:", md5(url)>>
Keys == {generate_cache_key(s) : s \in Sources}

CacheSuffixes == {".docx", ".csv", ".pdf"}
Paths == [dir : {"cache"}, stem : Digests, suffix : CacheSuffixes]
           \cup [dir : {"converted"}, stem : Digests, suffix : {".pdf", ".html"}]
NoPath == [dir |-> "none"]
NoFile == [mtime |-> -1]

\* CACHE_DIR / f"{url_hash}{file_ext}"
CachePath(digest, ext) == [dir |-> "cache", stem |-> digest, suffix |-> ext]
\* CONVERTED_DIR / f"{input_path.stem}.{fmt}"
ConvertedPath(input_path, fmt) ==
    [dir |-> "converted", stem |-> input_path.stem, suffix |-> "." \o fmt]

\* the local source files: which exist, and their own modification time.
\* /data/none.docx is a file that is removed between the look of the route
\* at it and the look of resolve at it.
SourceExists(p) == p \in {"/data/a.docx", "/data/./a.docx", "/data/b.csv", "/data/x.exe"}
ExistsAtRoute(p) == SourceExists(p) \/ p = "/data/none.docx"
SourceMtime(p) == IF ResolvePath(p) = "/data/a.docx" THEN 0 ELSE T0 - 10
SourceSize(p) == IF ResolvePath(p) = "/data/a.docx" THEN 2 ELSE 1

VARIABLES
    now,        \* time.time()
    nticks,     \* clock advances so far
    fs,         \* files of CACHE_DIR and CONVERTED_DIR: path -> file or NoFile
    locked,     \* the paths whose unlink the OS refuses (PermissionError)
    sweep,      \* the activation of cleanup_old_cache_files_safe
    redis,      \* the cache index: key -> record or NoRec
    task,       \* the request-handling tasks
    ncalls,     \* requests started so far
    hist,       \* per source: was a resolve ever started, the last resolve result
    workload,   \* the sources the clients of this run ask for
    sched,      \* the scheduler thread of StatsScheduler and its jobs
    walk        \* the activation of cleanup_old_cache_files

vars == <<now, nticks, fs, locked, sweep, redis, task, ncalls, hist, workload, sched,
          walk>>

FileRecs == [mtime : Int, size : Nat, complete : BOOLEAN, ver : Nat]
exists(p) == p \in Paths /\ fs[p] # NoFile
\* the files directly in directory d
Entries(d) == {p \in Paths : p.dir = d /\ fs[p] # NoFile}
\* Path(d).rglob("*"), the files: CONVERTED_DIR is CACHE_DIR/converted
\* (config.py 42-43), so the walk of the cache directory goes through the
\* converted files too
rglob(d) ==
    IF d = "cache" THEN Entries("cache") \cup Entries("converted")
    ELSE Entries("converted")

(***************************************************************************)
(* The clock.                                                              *)
(***************************************************************************)
\* The content of the sources is not the service's: every source is edited
\* once, one cache lifetime after the start.  SourceBytes is the version of
\* the bytes a read of the source gets now.
EditTime == T0 + CacheTtl
SourceBytes(src) == IF now >= EditTime THEN 1 ELSE 0

Tick(d) ==
    /\ nticks < MaxTicks
    /\ now' = now + d
    /\ nticks' = nticks + 1
    /\ UNCHANGED <<fs, locked, sweep, redis, task, ncalls, hist, workload, sched, walk>>

(***************************************************************************)
(* cleanup_old_cache_files_safe (utils_safe.py).                           *)
(***************************************************************************)
NoResult == [deleted_count |-> -1]
IdleSweep ==
    [pc |-> "idle", start_time |-> 0, current_time |-> 0, max_age_seconds |-> 0,
     timeout_seconds |-> 0, todo |-> {}, listed |-> {}, cur |-> NoPath,
     deleted_files |-> {}, deleted_size |-> 0, failed_deletions |-> <<>>,
     timed_out |-> FALSE, result |-> NoResult]

\* lines 56 / 91: if file_age > max_age_seconds
IsExpired_ge(file_age, max_age_seconds) == file_age >= max_age_seconds
IsExpired(file_age, max_age_seconds) == file_age > max_age_seconds

\* lines 49 / 84: if time.time() - start_time > timeout_seconds
TimeoutReached_never(sw) == FALSE
TimeoutReached(sw) == now - sw.start_time > sw.timeout_seconds

\* lines 62-65 / 97-100: except OSError: failed_deletions.append(error_msg)
OnOSError_drop(sw, f) == [sw EXCEPT !.cur = NoPath]
OnOSError(sw, f) ==
    [sw EXCEPT !.cur = NoPath, !.failed_deletions = Append(@, f)]

\* lines 25-47: the two clock reads, the empty accumulators, the listing of
\* the cache directory
cleanup_start(max_age_hours, timeout_seconds) ==
    /\ sweep.pc = "idle"
    /\ sweep' = [IdleSweep EXCEPT
                   !.pc = "cache",
                   !.start_time = now,
                   !.current_time = now,
                   !.max_age_seconds = max_age_hours * SecondsPerHour,
                   !.timeout_seconds = timeout_seconds,
                   !.todo = rglob("cache"),
                   !.listed = rglob("cache")]
    /\ UNCHANGED <<now, nticks, fs, locked, redis, task, ncalls, hist, workload, sched, walk>>

\* what follows the loop over directory d: lines 76-82 after the cache
\* directory, lines 111-138 after the converted directory
AfterLoop(sw, d) ==
    IF d = "cache"
    THEN [sw EXCEPT !.pc = "converted", !.cur = NoPath,
                    !.todo = rglob("converted"),
                    !.listed = @ \cup rglob("converted")]
    ELSE [sw EXCEPT !.pc = "result", !.cur = NoPath, !.todo = {}]

\* the for loop is exhausted
cleanup_loop_end(d) ==
    /\ sweep.pc = d /\ sweep.cur = NoPath /\ sweep.todo = {}
    /\ sweep' = AfterLoop(sweep, d)
    /\ UNCHANGED <<now, nticks, fs, locked, redis, task, ncalls, hist, workload, sched, walk>>

\* lines 48-51 / 83-86: the timeout check at the head of an iteration: break
cleanup_timeout(d) ==
    /\ sweep.pc = d /\ sweep.cur = NoPath /\ sweep.todo # {}
    /\ TimeoutReached(sweep)
    /\ sweep' = AfterLoop([sweep EXCEPT !.timed_out = TRUE], d)
    /\ UNCHANGED <<now, nticks, fs, locked, redis, task, ncalls, hist, workload, sched, walk>>

\* lines 57-60 / 92-95: the size is read before the unlink; after it the
\* file is appended to deleted_files and its size added to deleted_size
Account_skip(sw, f, file_size) == [sw EXCEPT !.cur = NoPath]
Account(sw, f, file_size) ==
    [sw EXCEPT !.cur = NoPath,
               !.deleted_files = @ \cup {f},
               !.deleted_size = @ + file_size]

\* lines 47-53 / 82-88: next entry of the listing, timeout check passed,
\* is_file()
cleanup_is_file(d) ==
    /\ sweep.pc = d /\ sweep.cur = NoPath /\ sweep.todo # {}
    /\ ~TimeoutReached(sweep)
    /\ \E f \in sweep.todo :
         sweep' = [sweep EXCEPT !.todo = @ \ {f},
                                !.cur = IF exists(f) THEN f ELSE NoPath]
    /\ UNCHANGED <<now, nticks, fs, locked, redis, task, ncalls, hist, workload, sched, walk>>

\* lines 54-69 / 89-104: stat, age test, stat, unlink, with the handlers
cleanup_process(d) ==
    /\ sweep.pc = d /\ sweep.cur # NoPath
    /\ LET f == sweep.cur IN
         IF ~exists(f)
         THEN /\ sweep' = OnOSError(sweep, f)
              /\ fs' = fs
         ELSE IF IsExpired(sweep.current_time - fs[f].mtime, sweep.max_age_seconds)
              THEN IF f \in locked
                   THEN /\ sweep' = OnOSError(sweep, f)
                        /\ fs' = fs
                   ELSE /\ fs' = [fs EXCEPT ![f] = NoFile]
                        /\ sweep' = Account(sweep, f, fs[f].size)
              ELSE /\ sweep' = [sweep EXCEPT !.cur = NoPath]
                   /\ fs' = fs
    /\ UNCHANGED <<now, nticks, locked, redis, task, ncalls, hist, workload, sched, walk>>

\* lines 111-138: the result
cleanup_result ==
    /\ sweep.pc = "result"
    /\ sweep' = [sweep EXCEPT
                   !.pc = "done",
                   !.result = [deleted_count |-> Cardinality(sweep.deleted_files),
                               deleted_size |-> sweep.deleted_size,
                               failed_count |-> Len(sweep.failed_deletions),
                               execution_time |-> now - sweep.start_time,
                               completed_normally |->
                                   (now - sweep.start_time <= sweep.timeout_seconds),
                               error |-> FALSE]]
    /\ UNCHANGED <<now, nticks, fs, locked, redis, task, ncalls, hist, workload, sched, walk>>

\* lines 140-156: the handler of the outermost try: the result it returns
DefaultResult(sw) ==
    [deleted_count |-> 0, deleted_size |-> 0, failed_count |-> 1,
     execution_time |-> now - sw.start_time, completed_normally |-> FALSE,
     error |-> TRUE]

\* line 41: cache_dir.exists() raises (PermissionError on the stat of the
\* directory): the exception is outside the try blocks of the two walks and
\* reaches the outermost handler
cleanup_start_fatal(max_age_hours, timeout_seconds) ==
    /\ sweep.pc = "idle"
    /\ sweep' = [IdleSweep EXCEPT
                   !.pc = "done",
                   !.start_time = now,
                   !.current_time = now,
                   !.max_age_seconds = max_age_hours * SecondsPerHour,
                   !.timeout_seconds = timeout_seconds,
                   !.result = DefaultResult([start_time |-> now])]
    /\ UNCHANGED <<now, nticks, fs, locked, redis, task, ncalls, hist, workload, sched, walk>>

\* line 77: converted_dir.exists() raises after the walk of the cache
\* directory has ended
cleanup_fatal ==
    /\ sweep.pc = "cache" /\ sweep.cur = NoPath /\ sweep.todo = {}
    /\ sweep' = [sweep EXCEPT !.pc = "done", !.result = DefaultResult(sweep)]
    /\ UNCHANGED <<now, nticks, fs, locked, redis, task, ncalls, hist, workload, sched, walk>>

\* the steps of a sweep that the clock has no part in
cleanup_walk ==
    \/ \E d \in {"cache", "converted"} :
         \/ cleanup_loop_end(d)
         \/ cleanup_is_file(d)
         \/ cleanup_process(d)
    \/ cleanup_result

cleanup_step ==
    \/ cleanup_walk
    \/ \E d \in {"cache", "converted"} : cleanup_timeout(d)
    \/ cleanup_fatal

\* a caller of the sweep with parameters of its own
cleanup_call ==
    \E h \in MaxAgeChoices, t \in TimeoutChoices :
       cleanup_start(h, t) \/ cleanup_start_fatal(h, t)

(***************************************************************************)
(* The cache index.  main.py builds the client with decode_responses=True, *)
(* so get and hgetall return str values.                                   *)
(***************************************************************************)
NoRec == [type |-> "none"]
\* the expiry of a key that has none: TTL answers -1
Never == -1
Live(key) ==
    /\ redis[key] # NoRec
    /\ redis[key].expires = Never \/ now < redis[key].expires

(***************************************************************************)
(* Request-handling tasks: local_file_copy_and_convert and                 *)
(* url_download_and_convert (convert_lib.py).                              *)
(***************************************************************************)
\* the request-handling tasks that run concurrently
Tasks == {1, 2}
NoErr == [kind |-> "none"]
NoRes == [hit |-> FALSE, path |-> NoPath]
IdleTask ==
    [pc |-> "idle", source |-> "", fmt |-> "", file_path |-> NoPath,
     original_filename |-> "", cache_hit |-> FALSE, output_path |-> NoPath,
     err |-> NoErr, proc |-> "none", ptime |-> 0,
     \* what the call observed and did, kept for the properties
     first |-> FALSE, prior |-> NoRes, intact |-> FALSE, stale |-> FALSE,
     wrote |-> FALSE, ret_exists |-> FALSE, memo |-> FALSE, inv |-> 0,
     \* the encodings that decode the input a renderer failed on
     content |-> {},
     \* the version of the input the converter process has read
     bytes |-> 0,
     \* the calls of stats_manager.log_conversion and stats_manager.log_error
     \* the request has made
     logged |-> 0, reported |-> 0,
     \* the source_value of the row written by log_conversion
     source_value |-> None,
     \* the parameters of the request
     url |-> None, path |-> None]

IsUrl(src) == src \in Urls

\* raise: the exception leaves the request; convert_lib.py calls log_error
\* on no path, and the routes (home_routes.py 122-133) write to the logger
\* only
Fail(t, kind, status) ==
    [t EXCEPT !.pc = "failed", !.err = [kind |-> kind, status |-> status, at |-> t.pc]]

\* app/utils.py: CONVERTABLE_EXTENSIONS
CONVERTABLE_EXTENSIONS == {".doc", ".docx", ".odt", ".rtf", ".xls", ".xlsx", ".ods", ".csv",
                           ".ppt", ".pptx", ".odp"}

\* ConvertParams.validate_url (schemas.py 68-82): a URL whose last part has
\* a suffix must end with a convertible extension
validate_url(v) ==
    v # None =>
       (Suffix(BaseName(v)) # "" => Suffix(BaseName(v)) \in CONVERTABLE_EXTENSIONS)
\* ConvertParams.validate_path (schemas.py 84-110)
validate_path(v) ==
    v # None => (ExistsAtRoute(v) /\ Suffix(BaseName(v)) \in CONVERTABLE_EXTENSIONS)
\* ConvertParams.validate_source (schemas.py 48-66) and the same two tests
\* of delete_file_cache (cache_routes.py 104-114)
Neither(url, path) == url = None /\ path = None
Both_never(url, path) == FALSE
Both(url, path) == url # None /\ path # None
validate_source(url, path, output) ==
    /\ ~Neither(url, path)
    /\ ~Both(url, path)
    /\ path # None => Suffix(BaseName(path)) # "." \o output
\* ConvertParams(url=url, path=path, output=output) raises no ValueError
ConvertParams(url, path, output) ==
    validate_url(url) /\ validate_path(path) /\ validate_source(url, path, output)

\* the parameters a client of the workload w can send: each of url and path
\* left out or taken from w
UrlChoices(w) == (w \cap Urls) \cup {None}
PathChoices(w) == (w \cap LocalPaths) \cup {None}

(***************************************************************************)
(* The requests are coroutines of one event loop.  A coroutine takes a     *)
(* step only while no other coroutine occupies the loop's thread.  Every   *)
(* long operation is awaited: the external converter runs as an asyncio    *)
(* subprocess (convert_lib.py) or in the default executor (view_lib.py),   *)
(* so a request whose converter is running does not occupy the loop.  A    *)
(* request occupies it between two statements with no await between them:  *)
(* the hset and the expire of copy_and_cache_file.                         *)
(***************************************************************************)
HoldsEventLoop_sync(t) == t.pc = "copy_expire" \/ t.proc = "running"

HoldsEventLoop(t) == t.pc = "copy_expire"

LoopFree(r) ==
    /\ walk.pc # "walk"
    /\ \A q \in Tasks \ {r} : ~HoldsEventLoop(task[q])

\* GET/POST /convert (home_routes.py 88-160): the route builds ConvertParams
\* and, when that raises, answers with the error; else it hands the request
\* to url_download_and_convert when a url is given and to
\* local_file_copy_and_convert otherwise; the request runs in the first
\* free task
StartRequest(r) ==
    /\ LoopFree(r)
    /\ task[r].pc \in {"idle", "done", "failed"}
    /\ \A q \in Tasks : q < r => task[q].pc \notin {"idle", "done", "failed"}
    /\ ncalls < MaxCalls
    /\ \E url \in UrlChoices(workload), path \in PathChoices(workload), fmt \in Formats :
         LET src == IF url # None THEN url ELSE path
             t == [IdleTask EXCEPT !.pc = "route", !.url = url, !.path = path,
                                   !.source = src, !.fmt = fmt]
         IN IF ~ConvertParams(url, path, fmt)
            THEN /\ task' = [task EXCEPT ![r] = Fail(t, "ValueError", 200)]
                 /\ hist' = hist
            ELSE /\ task' = [task EXCEPT ![r] =
                               [t EXCEPT
                                  !.pc = IF IsUrl(src) THEN "dl_check" ELSE "copy_check",
                                  !.first = ~hist[SourceOf(src)].seen,
                                  !.prior = hist[SourceOf(src)].last]]
                 /\ hist' = [hist EXCEPT ![SourceOf(src)].seen = TRUE]
    /\ ncalls' = ncalls + 1
    /\ UNCHANGED <<now, nticks, fs, locked, sweep, redis, workload, sched, walk>>

\* validate_file_extension (utils.py 163-171): the extension is allowed
validate_file_extension_any(filename) == TRUE
validate_file_extension(filename) == Suffix(filename) \in SUPPORTED_EXTENSIONS


\* resolve ends: the entry point holds (file_path, original_filename, cache_hit)
Resolved(t, path, filename, hit) ==
    [t EXCEPT !.pc = "convert", !.file_path = path, !.original_filename = filename,
              !.cache_hit = hit, !.ret_exists = exists(path)]

\* copy_and_cache_file, lines 190-212: the two checks, the index lookup and
\* the hit branch
copy_check(r) ==
    /\ LoopFree(r)
    /\ task[r].pc = "copy_check"
    /\ LET t == task[r]
           path == t.source
           filename == BaseName(path)
           cache_key == generate_cache_key(ResolvePath(path))
           cached == Live(cache_key)
           seen == [t EXCEPT !.intact = cached /\ exists(t.prior.path),
                             !.stale = cached /\ ~exists(redis[cache_key].path)]
       IN IF ~SourceExists(path)
          THEN task' = [task EXCEPT ![r] = Fail(seen, "NotFound", 400)] /\ hist' = hist
          ELSE IF ~validate_file_extension(filename)
          THEN task' = [task EXCEPT ![r] = Fail(seen, "UnsupportedFormat", 400)]
               /\ hist' = hist
          ELSE IF cached /\ exists(redis[cache_key].path)
          THEN /\ task' = [task EXCEPT ![r] =
                             Resolved(seen, redis[cache_key].path,
                                      redis[cache_key].filename, TRUE)]
               /\ hist' = [hist EXCEPT ![ResolvePath(path)].last =
                             [hit |-> TRUE, path |-> redis[cache_key].path]]
          ELSE /\ task' = [task EXCEPT ![r] =
                             [seen EXCEPT !.pc = "copy_open",
                                          !.file_path =
                                             CachePath(md5(ResolvePath(path)),
                                                       Suffix(filename))]]
               /\ hist' = hist
    /\ UNCHANGED <<now, nticks, fs, locked, sweep, redis, ncalls, workload, sched, walk>>

\* lines 214-217: the content of the source is read into memory, then
\* aiofiles.open(cache_file_path, 'wb') creates the file or truncates the one
\* that is there
copy_open(r) ==
    /\ LoopFree(r)
    /\ task[r].pc = "copy_open"
    /\ fs' = [fs EXCEPT ![task[r].file_path] =
                [mtime |-> now, size |-> 0, complete |-> FALSE,
                 ver |-> SourceBytes(task[r].source)]]
    /\ task' = [task EXCEPT ![r].pc = "copy_write",
                            ![r].bytes = SourceBytes(task[r].source)]
    /\ UNCHANGED <<now, nticks, locked, sweep, redis, ncalls, hist, workload, sched, walk>>

\* lines 218-219: await dst.write(content) and the close of the file; the
\* descriptor writes also when the name was unlinked in between
copy_write(r) ==
    /\ LoopFree(r)
    /\ task[r].pc = "copy_write"
    /\ fs' = IF exists(task[r].file_path)
             THEN [fs EXCEPT ![task[r].file_path] =
                     [mtime |-> now, size |-> SourceSize(task[r].source),
                      complete |-> TRUE, ver |-> task[r].bytes]]
             ELSE fs
    /\ task' = [task EXCEPT ![r].pc = "copy_stat", ![r].wrote = TRUE]
    /\ UNCHANGED <<now, nticks, locked, sweep, redis, ncalls, hist, workload, sched, walk>>

\* lines 221-223: shutil.copystat gives the copy the times of the source
copy_stat(r) ==
    /\ LoopFree(r)
    /\ task[r].pc = "copy_stat"
    /\ LET f == task[r].file_path IN
         IF ~exists(f)
         THEN /\ task' = [task EXCEPT ![r] = Fail(task[r], "FileNotFoundError", 500)]
              /\ fs' = fs
         ELSE /\ fs' = [fs EXCEPT ![f].mtime = SourceMtime(task[r].source)]
              /\ task' = [task EXCEPT ![r].pc = "copy_index"]
    /\ UNCHANGED <<now, nticks, locked, sweep, redis, ncalls, hist, workload, sched, walk>>

\* lines 229-236: stat for the size, hset.  HSET sets no expiry: a key it
\* creates has none, a key it finds keeps the one it has.
copy_index(r) ==
    /\ LoopFree(r)
    /\ task[r].pc = "copy_index"
    /\ LET t == task[r]
           f == t.file_path
           cache_key == generate_cache_key(ResolvePath(t.source))
       IN IF ~exists(f)
          THEN /\ task' = [task EXCEPT ![r] = Fail(t, "FileNotFoundError", 500)]
               /\ redis' = redis
          ELSE /\ redis' = [redis EXCEPT ![cache_key] =
                              [type |-> "hash", path |-> f,
                               filename |-> BaseName(t.source),
                               expires |-> IF Live(cache_key)
                                           THEN redis[cache_key].expires
                                           ELSE Never]]
               /\ task' = [task EXCEPT ![r].pc = "copy_expire"]
    /\ UNCHANGED <<now, nticks, fs, locked, sweep, ncalls, hist, workload, sched, walk>>

\* lines 237-239: expire(cache_key, 86400), a second command to the index;
\* return
copy_expire(r) ==
    /\ task[r].pc = "copy_expire"
    /\ LET t == task[r]
           f == t.file_path
           cache_key == generate_cache_key(ResolvePath(t.source))
       IN /\ redis' = [redis EXCEPT ![cache_key].expires = now + CacheTtl]
          /\ task' = [task EXCEPT ![r] = Resolved(t, f, BaseName(t.source), FALSE)]
          /\ hist' = [hist EXCEPT ![ResolvePath(t.source)].last =
                        [hit |-> FALSE, path |-> f]]
    /\ UNCHANGED <<now, nticks, fs, locked, sweep, ncalls, workload, sched, walk>>

\* session.get(url) raises instead of answering
ClientError == -1

\* download_and_cache_file, lines 105-126: the index lookup.  The value read
\* is a str, and cached_filename.decode('utf-8') raises AttributeError
\* before the file is looked at.
dl_check(r) ==
    /\ LoopFree(r)
    /\ task[r].pc = "dl_check"
    /\ LET t == task[r]
           cache_key == generate_cache_key(t.source)
           cached == Live(cache_key)
           seen == [t EXCEPT
                      !.intact = cached /\ exists(t.prior.path),
                      !.stale = cached /\ ~exists(CachePath(md5(t.source),
                                                   Suffix(redis[cache_key].filename)))]
       IN IF cached
          THEN task' = [task EXCEPT ![r] = Fail(seen, "AttributeError", 500)]
          ELSE task' = [task EXCEPT ![r] = [seen EXCEPT !.pc = "dl_fetch"]]
    /\ UNCHANGED <<now, nticks, fs, locked, sweep, redis, ncalls, hist, workload, sched, walk>>

\* lines 129-180: GET, the status, the file name, the extension check, the
\* write of the cache file.  A connection that fails raises
\* aiohttp.ClientError, which the first handler turns into
\* HTTPException(400); every other exception raised in the try block, the
\* HTTPException(400) of the status test and of the extension check and the
\* OSError of a cache file that cannot be opened for writing included, is
\* raised again as HTTPException(500) by the last handler
dl_fetch(r) ==
    /\ LoopFree(r)
    /\ task[r].pc = "dl_fetch"
    /\ LET t == task[r]
           original_filename == FileName(t.source)
           cache_path == CachePath(md5(t.source), Suffix(original_filename))
       IN \E status \in {200, 404, ClientError}, writable \in BOOLEAN :
            IF status = ClientError
            THEN /\ task' = [task EXCEPT ![r] = Fail(t, "ConnectionFailed", 400)]
                 /\ fs' = fs
            ELSE IF status # 200
            THEN /\ task' = [task EXCEPT ![r] = Fail(t, "DownloadFailed", 500)]
                 /\ fs' = fs
            ELSE IF ~validate_file_extension(original_filename)
            THEN /\ task' = [task EXCEPT ![r] = Fail(t, "UnsupportedFormat", 500)]
                 /\ fs' = fs
            ELSE IF ~writable
            THEN /\ task' = [task EXCEPT ![r] = Fail(t, "WriteFailed", 500)]
                 /\ fs' = fs
            ELSE /\ fs' = [fs EXCEPT ![cache_path] =
                             [mtime |-> now, size |-> 1, complete |-> TRUE,
                              ver |-> SourceBytes(t.source)]]
                 /\ task' = [task EXCEPT ![r] =
                               [t EXCEPT !.pc = "dl_index", !.file_path = cache_path,
                                         !.original_filename = original_filename,
                                         !.wrote = TRUE]]
    /\ UNCHANGED <<now, nticks, locked, sweep, redis, ncalls, hist, workload, sched, walk>>

\* lines 163-167: setex for 24 hours, return
dl_index(r) ==
    /\ LoopFree(r)
    /\ task[r].pc = "dl_index"
    /\ LET t == task[r]
           cache_key == generate_cache_key(t.source)
       IN /\ redis' = [redis EXCEPT ![cache_key] =
                         [type |-> "string", filename |-> t.original_filename,
                          path |-> NoPath, expires |-> now + CacheTtl]]
          /\ task' = [task EXCEPT ![r] =
                        Resolved(t, t.file_path, t.original_filename, FALSE)]
          /\ hist' = [hist EXCEPT ![t.source].last =
                        [hit |-> FALSE, path |-> t.file_path]]
    /\ UNCHANGED <<now, nticks, fs, locked, sweep, ncalls, workload, sched, walk>>

(***************************************************************************)
(* The conversion: convert_to_pdf (convert_lib.py) and convert_to_html     *)
(* (view_lib.py), and the external converter they start.                   *)
(***************************************************************************)
\* the existence shortcut, convert_lib.py 36-38 and view_lib.py 771-773
OutputExists_never(path) == FALSE
OutputExists(path) == exists(path)

\* the suffixes view_lib.convert_to_html renders in process
RenderedSuffixes == {".csv", ".txt", ".jpg", ".jpeg", ".png", ".gif", ".bmp", ".md", ".pdf"}

\* convert returns: the entry point holds output_path
Converted(t, path) == [t EXCEPT !.pc = "log", !.output_path = path]

\* the converter process is started: create_subprocess_exec / subprocess.run
Spawn(t, pc) ==
    [t EXCEPT !.pc = pc, !.proc = "running", !.ptime = now, !.inv = @ + 1]

\* the input is a PDF already, convert_lib.py 28-30
AlreadyPdf_never(input_path) == FALSE
AlreadyPdf(input_path) == input_path.suffix = ".pdf"
\* the input is HTML already, view_lib.py 763-765
AlreadyHtml(input_path) == input_path.suffix \in {".html", ".htm"}

\* convert raises: HTTPException(500) leaves the request, nothing is tried
\* again (convert_lib.py 69-95, view_lib.py 731-752)
ConvertFail_retry(t, kind) == [t EXCEPT !.pc = "convert"]
ConvertFail(t, kind) == Fail(t, kind, 500)

\* convert_to_pdf, lines 29-66; find_soffice() finds the executable or
\* returns None
pdf_check(r) ==
    /\ LoopFree(r)
    /\ task[r].pc = "convert" /\ task[r].fmt = "pdf"
    /\ LET t == task[r]
           input_path == t.file_path
           pdf_path == ConvertedPath(input_path, "pdf")
           seen == [t EXCEPT !.memo = exists(pdf_path)]
       IN IF AlreadyPdf(input_path)
          THEN task' = [task EXCEPT ![r] = Converted(t, input_path)]
          ELSE IF OutputExists(pdf_path)
          THEN task' = [task EXCEPT ![r] = Converted(seen, pdf_path)]
          ELSE \E soffice_path \in BOOLEAN :
                 IF ~soffice_path
                 THEN task' = [task EXCEPT ![r] = ConvertFail(seen, "NoConverter")]
                 ELSE task' = [task EXCEPT ![r] =
                                 [Spawn(seen, "pdf_wait") EXCEPT !.output_path = pdf_path]]
    /\ UNCHANGED <<now, nticks, fs, locked, sweep, redis, ncalls, hist, workload, sched, walk>>

\* the converter exits: with the output written, with a nonzero code, or
\* with code zero and no output; it writes the output only if it could read
\* its input.  The html conversion writes into CONVERTED_DIR, the pdf
\* conversion of convert_lib into the temporary directory of the call.
\* A converter started by subprocess.run(timeout=60) does not outlive the
\* timeout: it is killed (lo_timeout).
soffice_exit(r) ==
    /\ task[r].proc = "running"
    /\ task[r].pc = "lo_wait" => now - task[r].ptime <= SubprocessTimeout
    /\ LET t == task[r] IN
         \E outcome \in {"exit_ok", "exit_fail", "exit_noout"} :
            /\ outcome = "exit_ok" => exists(t.file_path)
            /\ task' = [task EXCEPT ![r].proc = outcome, ![r].ptime = now,
                                    ![r].bytes = IF outcome = "exit_ok"
                                                 THEN fs[t.file_path].ver ELSE 0]
            /\ fs' = IF outcome = "exit_ok" /\ t.fmt = "html"
                     THEN [fs EXCEPT ![t.output_path] =
                             [mtime |-> now, size |-> 1, complete |-> TRUE,
                              ver |-> fs[t.file_path].ver]]
                     ELSE fs
    /\ UNCHANGED <<now, nticks, locked, sweep, redis, ncalls, hist, workload, sched, walk>>

\* the html conversion is started with --outdir CONVERTED_DIR (view_lib.py
\* 703-709): the running converter creates html_path itself and fills it
\* while it runs; the file is there before it is finished
soffice_write(r) ==
    /\ task[r].pc = "lo_wait" /\ task[r].proc = "running"
    /\ now - task[r].ptime <= SubprocessTimeout
    /\ exists(task[r].file_path)
    /\ IF exists(task[r].output_path) THEN fs[task[r].output_path].complete ELSE TRUE
    /\ fs' = [fs EXCEPT ![task[r].output_path] =
                [mtime |-> now, size |-> 0, complete |-> FALSE,
                 ver |-> fs[task[r].file_path].ver]]
    /\ UNCHANGED <<now, nticks, locked, sweep, redis, task, ncalls, hist, workload,
                   sched, walk>>

\* convert_to_pdf, lines 67-95: communicate() returns when the process has
\* exited; there is no timeout on it
pdf_wait(r) ==
    /\ LoopFree(r)
    /\ task[r].pc = "pdf_wait"
    /\ task[r].proc \in {"exit_ok", "exit_fail", "exit_noout"}
    /\ LET t == task[r] IN
         IF t.proc = "exit_fail"
         THEN /\ task' = [task EXCEPT ![r] = ConvertFail(t, "ConversionFailed")]
              /\ fs' = fs
         ELSE IF t.proc = "exit_noout"
         THEN /\ task' = [task EXCEPT ![r] = ConvertFail(t, "OutputNotFound")]
              /\ fs' = fs
         ELSE /\ fs' = [fs EXCEPT ![t.output_path] =
                          [mtime |-> t.ptime, size |-> 1, complete |-> TRUE,
                           ver |-> t.bytes]]
              /\ task' = [task EXCEPT ![r] = Converted(t, t.output_path)]
    /\ UNCHANGED <<now, nticks, locked, sweep, redis, ncalls, hist, workload, sched, walk>>

\* convert_to_html, lines 763-797, with the start of the converter in
\* convert_with_libreoffice_async, lines 695-727
html_check(r) ==
    /\ LoopFree(r)
    /\ task[r].pc = "convert" /\ task[r].fmt = "html"
    /\ LET t == task[r]
           input_path == t.file_path
           html_path == ConvertedPath(input_path, "html")
           seen == [t EXCEPT !.memo = exists(html_path)]
       IN IF AlreadyHtml(input_path)
          THEN task' = [task EXCEPT ![r] = Converted(t, input_path)]
          ELSE IF OutputExists(html_path)
          THEN task' = [task EXCEPT ![r] = Converted(seen, html_path)]
          ELSE IF input_path.suffix \in RenderedSuffixes
          THEN task' = [task EXCEPT ![r] =
                          [seen EXCEPT !.pc = "render", !.output_path = html_path,
                                       !.inv = @ + 1]]
          ELSE \E libre_office \in BOOLEAN :
                 IF ~libre_office
                 THEN task' = [task EXCEPT ![r] = ConvertFail(seen, "NoConverter")]
                 ELSE task' = [task EXCEPT ![r] =
                                 [Spawn(seen, "lo_wait") EXCEPT !.output_path = html_path]]
    /\ UNCHANGED <<now, nticks, fs, locked, sweep, redis, ncalls, hist, workload, sched, walk>>

\* The bytes of a text file, told by the encodings that decode them without
\* error: plain ASCII, and Korean text saved as EUC-KR.  latin-1 decodes
\* every byte string.
Contents ==
    {{"utf-8", "cp949", "euc-kr", "latin-1"}, {"cp949", "euc-kr", "latin-1"}}

\* open(path, 'r', encoding=encoding, errors=errors).read()
Decode(content, encoding, errors) ==
    IF errors = "replace" \/ encoding \in content THEN "ok" ELSE "UnicodeDecodeError"

\* view_lib.py 178-189: the list and the loop over it, each read with
\* errors='replace'; the result is the encoding of the first read that does
\* not raise, or None
encodings == <<"utf-8", "cp949", "euc-kr", "latin-1">>
Encodings == {encodings[i] : i \in DOMAIN encodings}
FirstDecoding(content) ==
    LET ok == {i \in DOMAIN encodings : Decode(content, encodings[i], "replace") = "ok"}
    IN IF ok = {} THEN None
       ELSE encodings[CHOOSE i \in ok : \A j \in ok : i <= j]

\* convert_csv_to_html (view_lib.py 163-245): the strict UTF-8 read of lines
\* 172-174 comes before the loop and is inside the outer try, whose handler
\* (240-245) raises HTTPException(500).  The result is the encoding used, or
\* the exception.
convert_csv_to_html(content) ==
    IF Decode(content, "utf-8", "strict") # "ok" THEN "UnicodeDecodeError"
    ELSE IF FirstDecoding(content) = None THEN "Exception"
    ELSE FirstDecoding(content)

\* the in-process renderer in the executor (view_lib.py 775-795): it opens
\* the input, writes html_path and returns it; a missing input and an
\* exception of the renderer are raised as HTTPException(500)
render(r) ==
    /\ LoopFree(r)
    /\ task[r].pc = "render"
    /\ LET t == task[r] IN
         IF ~exists(t.file_path)
         THEN /\ task' = [task EXCEPT ![r] = ConvertFail(t, "RenderFailed")]
              /\ fs' = fs
         ELSE \E content \in Contents :
                IF /\ t.file_path.suffix = ".csv"
                   /\ convert_csv_to_html(content) \notin Encodings
                THEN /\ task' = [task EXCEPT ![r] =
                                   ConvertFail([t EXCEPT !.content = content],
                                               convert_csv_to_html(content))]
                     /\ fs' = fs
                ELSE /\ fs' = [fs EXCEPT ![t.output_path] =
                                 [mtime |-> now, size |-> 1, complete |-> TRUE,
                                  ver |-> fs[t.file_path].ver]]
                     /\ task' = [task EXCEPT ![r] = Converted(t, t.output_path)]
    /\ UNCHANGED <<now, nticks, locked, sweep, redis, ncalls, hist, workload, sched, walk>>

\* convert_with_libreoffice_async, lines 727-741: the process has exited
lo_wait(r) ==
    /\ LoopFree(r)
    /\ task[r].pc = "lo_wait"
    /\ task[r].proc \in {"exit_ok", "exit_fail", "exit_noout"}
    /\ LET t == task[r] IN
         IF t.proc = "exit_fail"
         THEN task' = [task EXCEPT ![r] = ConvertFail(t, "ConversionFailed")]
         ELSE IF ~exists(t.output_path)
         THEN task' = [task EXCEPT ![r] = ConvertFail(t, "OutputNotFound")]
         ELSE task' = [task EXCEPT ![r] = Converted(t, t.output_path)]
    /\ UNCHANGED <<now, nticks, fs, locked, sweep, redis, ncalls, hist, workload, sched, walk>>

\* lines 725, 743-747: subprocess.run kills the process when the timeout has
\* passed and raises TimeoutExpired
lo_timeout(r) ==
    /\ task[r].pc = "lo_wait" /\ task[r].proc = "running"
    /\ now - task[r].ptime > SubprocessTimeout
    /\ task' = [task EXCEPT ![r] =
                  [ConvertFail(task[r], "ConversionTimeout") EXCEPT !.proc = "killed"]]
    /\ UNCHANGED <<now, nticks, fs, locked, sweep, redis, ncalls, hist, workload, sched, walk>>

\* convert_with_libreoffice (view_lib.py 594-688), the blocking variant of
\* the converter call: subprocess.run on the event loop, so the whole call is
\* one step.  When the converter has exited with code zero and the expected
\* file is not there, the newest *.html of the output directory is taken
\* (lines 651-666) and renamed to html_path (lines 669-670).
generated_files == {p \in Paths : p.dir = "converted" /\ p.suffix = ".html" /\ exists(p)}
Newest(files) == {g \in files : \A h \in files : fs[h].mtime <= fs[g].mtime}

convert_with_libreoffice(r) ==
    /\ LoopFree(r)
    /\ task[r].pc = "convert" /\ task[r].fmt = "html"
    /\ LET t == task[r]
           input_path == t.file_path
           html_path == ConvertedPath(input_path, "html")
           called == [t EXCEPT !.memo = FALSE, !.inv = @ + 1, !.output_path = html_path]
       IN /\ ~AlreadyHtml(input_path) /\ ~OutputExists(html_path)
          /\ input_path.suffix \notin RenderedSuffixes
          /\ \E outcome \in {"none", "exit_ok", "exit_fail", "exit_noout"} :
               /\ outcome = "exit_ok" => exists(input_path)
               /\ IF outcome = "none"
                  THEN /\ task' = [task EXCEPT ![r] = ConvertFail(called, "NoConverter")]
                       /\ fs' = fs
                  ELSE IF outcome = "exit_fail"
                  THEN /\ task' = [task EXCEPT ![r] =
                                     ConvertFail(called, "ConversionFailed")]
                       /\ fs' = fs
                  ELSE IF outcome = "exit_ok"
                  THEN /\ fs' = [fs EXCEPT ![html_path] =
                                   [mtime |-> now, size |-> 1, complete |-> TRUE,
                                    ver |-> fs[input_path].ver]]
                       /\ task' = [task EXCEPT ![r] = Converted(called, html_path)]
                  ELSE IF generated_files = {}
                  THEN /\ task' = [task EXCEPT ![r] =
                                     ConvertFail(called, "OutputNotFound")]
                       /\ fs' = fs
                  ELSE \E expected_html \in Newest(generated_files) :
                         /\ fs' = [fs EXCEPT ![html_path] = fs[expected_html],
                                             ![expected_html] = NoFile]
                         /\ task' = [task EXCEPT ![r] = Converted(called, html_path)]
    /\ UNCHANGED <<now, nticks, locked, sweep, redis, ncalls, hist, workload, sched, walk>>

\* stats_manager.log_conversion(...): one row in the conversions table
log_conversion_skip(t) == t
log_conversion(t) == [t EXCEPT !.logged = @ + 1]

\* f"{PROTOCOL}://{HOST}:{PORT}/aview/{output_format}/{output_path.name}",
\* lines 264 and 304
ConvertedUrl(fmt, output_path) ==
    "http://aview/aview/" \o fmt \o "/md5(" \o output_path.stem[2] \o ")"
        \o output_path.suffix

\* the source_value argument of log_conversion.  url_download_and_convert
\* assigns the URL of the converted file to its parameter url (line 264)
\* before it passes url (line 271); local_file_copy_and_convert passes path
\* (line 311).
SourceValue(t) ==
    IF IsUrl(t.source) THEN ConvertedUrl(t.fmt, t.output_path) ELSE t.source

\* local_file_copy_and_convert / url_download_and_convert, lines 263-279 and
\* 303-319: output_path.stat() and log_conversion
finish(r) ==
    /\ LoopFree(r)
    /\ task[r].pc = "log"
    /\ IF ~exists(task[r].output_path)
       THEN task' = [task EXCEPT ![r] = Fail(task[r], "FileNotFoundError", 500)]
       ELSE task' = [task EXCEPT ![r] =
                       [log_conversion(task[r]) EXCEPT
                          !.pc = "done", !.source_value = SourceValue(task[r])]]
    /\ UNCHANGED <<now, nticks, fs, locked, sweep, redis, ncalls, hist, workload, sched, walk>>

task_step(r) ==
    \/ copy_check(r) \/ copy_open(r) \/ copy_write(r) \/ copy_stat(r) \/ copy_index(r)
    \/ copy_expire(r)
    \/ dl_check(r) \/ dl_fetch(r) \/ dl_index(r)
    \/ pdf_check(r) \/ pdf_wait(r)
    \/ html_check(r) \/ render(r) \/ lo_wait(r)
    \/ finish(r)

(***************************************************************************)
(* StatsScheduler (stat_scheduler.py): one thread polls the two jobs.      *)
(***************************************************************************)
Jobs == {"daily", "weekly"}
\* start_scheduler has run: the jobs are registered and the thread polls.
\* running is the flag of the object, threads the number of threads that
\* are in the loop of _run_scheduler, registered the number of entries of
\* each job in the job list of the schedule module, calls the number of
\* start_scheduler and stop_scheduler calls after the startup.
StartedScheduler ==
    [alive |-> TRUE, due |-> {}, last |-> [j \in Jobs |-> "none"],
     running |-> TRUE, threads |-> 1, registered |-> [j \in Jobs |-> 1], calls |-> 0]

\* the time of day of job j has come: run_pending will run it
job_due(j) ==
    /\ sched.registered[j] > 0
    /\ j \notin sched.due
    /\ sched' = [sched EXCEPT !.due = @ \cup {j}]
    /\ UNCHANGED <<now, nticks, fs, locked, sweep, redis, task, ncalls, hist, workload, walk>>

\* the job returns: schedule sets its next run
JobReturned(s, j) == [s EXCEPT !.due = @ \ {j}, !.last[j] = "ok"]
\* the job raises: schedule.run_pending() does not catch, and neither does
\* the loop of _run_scheduler (lines 47-49), so the thread ends
JobRaised(s, j) ==
    [s EXCEPT !.alive = s.threads > 1, !.threads = @ - 1, !.last[j] = "raised"]

\* StatsScheduler._daily_recalculation (stat_scheduler.py 51-65), run by the
\* polling thread.  Line 55 calls stats_manager.recalculate_daily_stats, a
\* method StatsDatabase (stats_db.py) does not have: AttributeError, raised
\* before the try block that holds the sweep.
daily_recalculation ==
    /\ sched.alive /\ "daily" \in sched.due
    /\ sched' = JobRaised(sched, "daily")
    /\ UNCHANGED <<now, nticks, fs, locked, sweep, redis, task, ncalls, hist, workload, walk>>

\* StatsScheduler._weekly_maintenance (lines 67-77): sqlite3.connect and the
\* DELETE succeed, or raise sqlite3.Error
weekly_maintenance ==
    /\ sched.alive /\ "weekly" \in sched.due
    /\ \E ok \in BOOLEAN :
         sched' = IF ok THEN JobReturned(sched, "weekly") ELSE JobRaised(sched, "weekly")
    /\ UNCHANGED <<now, nticks, fs, locked, sweep, redis, task, ncalls, hist, workload, walk>>

\* start_scheduler (lines 23-35): nothing when the flag is set; otherwise
\* both jobs are appended to the job list, the flag is set and a new thread
\* is started
start_scheduler_guarded(s) ==
    IF s.running THEN s
    ELSE [s EXCEPT !.registered = [j \in Jobs |-> @[j] + 1],
                   !.running = TRUE, !.threads = @ + 1, !.alive = TRUE]

start_scheduler ==
    /\ sched.calls < MaxCalls
    /\ sched' = [start_scheduler_guarded(sched) EXCEPT !.calls = @ + 1]
    /\ UNCHANGED <<now, nticks, fs, locked, sweep, redis, task, ncalls, hist, workload, walk>>

\* stop_scheduler (lines 38-42): the flag is cleared and schedule.clear()
\* empties the job list; no thread is joined
stop_scheduler ==
    /\ sched.calls < MaxCalls
    /\ sched' = [sched EXCEPT !.running = FALSE, !.registered = [j \in Jobs |-> 0],
                              !.due = {}, !.calls = @ + 1]
    /\ UNCHANGED <<now, nticks, fs, locked, sweep, redis, task, ncalls, hist, workload, walk>>

\* _run_scheduler (lines 44-48): a thread that wakes from time.sleep(60) and
\* reads the flag cleared leaves the loop; one that reads it set goes on
run_scheduler_exit ==
    /\ sched.threads > 0 /\ ~sched.running
    /\ sched' = [sched EXCEPT !.threads = @ - 1, !.alive = sched.threads > 1]
    /\ UNCHANGED <<now, nticks, fs, locked, sweep, redis, task, ncalls, hist, workload, walk>>

(***************************************************************************)
(* The cache routes (cache_routes.py): they remove files and leave the     *)
(* index alone.                                                            *)
(***************************************************************************)
\* the files a loop of unlink calls over the matches M removes: all of them,
\* or, when one of them is locked, those unlinked before the PermissionError
Unlinked(M) ==
    IF M \cap locked = {} THEN {M} ELSE SUBSET (M \ locked)

\* DELETE /cache/file, lines 98-137: a request with both or with neither is
\* answered 400 before anything is looked at
delete_file_cache(url, path) ==
    /\ walk.pc # "walk"
    /\ IF Neither(url, path) \/ Both(url, path)
       THEN fs' = fs
       ELSE LET source == Source(url, path)
                file_hash == md5(source)
                cm == {p \in Entries("cache") : p.stem = file_hash}
                vm == {p \in Entries("converted") : p.stem = file_hash}
            IN \E D \in Unlinked(cm), E \in Unlinked(vm) :
                 fs' = [p \in Paths |->
                          IF p \in D \/ (cm \cap locked = {} /\ p \in E)
                          THEN NoFile ELSE fs[p]]
    /\ UNCHANGED <<now, nticks, locked, sweep, redis, task, ncalls, hist, workload, sched, walk>>

\* POST /cache/cleanup (cache_routes.py 15-22) calls cleanup_old_cache_files
\* (utils.py 255-270), a synchronous function: while it walks, the event loop
\* runs no coroutine, but the other threads and the converter processes go
\* on.  The route answers 200 when the function returns and 500 when it
\* raises.
IdleWalk ==
    [pc |-> "idle", calls |-> 0, current_time |-> 0, max_age_seconds |-> 0,
     todo |-> {}, cur |-> NoPath, status |-> 0]

\* lines 259-263: the clock read, the threshold, the listing of the cache
\* directory, the converted files included
cleanup_cache(max_age_hours) ==
    /\ walk.pc \in {"idle", "done"}
    /\ walk.calls < MaxCalls
    /\ \A r \in Tasks : ~HoldsEventLoop(task[r])
    /\ walk' = [IdleWalk EXCEPT
                  !.pc = "walk",
                  !.calls = walk.calls + 1,
                  !.current_time = now,
                  !.max_age_seconds = max_age_hours * SecondsPerHour,
                  !.todo = rglob("cache")]
    /\ UNCHANGED <<now, nticks, fs, locked, sweep, redis, task, ncalls, hist, workload, sched>>

\* lines 263-264: next entry of the listing, is_file()
cleanup_old_is_file ==
    /\ walk.pc = "walk" /\ walk.cur = NoPath /\ walk.todo # {}
    /\ \E f \in walk.todo :
         walk' = [walk EXCEPT !.todo = @ \ {f},
                              !.cur = IF exists(f) THEN f ELSE NoPath]
    /\ UNCHANGED <<now, nticks, fs, locked, sweep, redis, task, ncalls, hist, workload, sched>>

\* line 265: stat() outside the try block: FileNotFoundError leaves the
\* function
StatRaises(w) == [w EXCEPT !.pc = "done", !.cur = NoPath, !.status = 500]

\* lines 265-270: stat, age test, unlink; a failing unlink is passed over
cleanup_old_unlink ==
    /\ walk.pc = "walk" /\ walk.cur # NoPath
    /\ LET f == walk.cur IN
         IF ~exists(f)
         THEN /\ walk' = StatRaises(walk)
              /\ fs' = fs
         ELSE /\ walk' = [walk EXCEPT !.cur = NoPath]
              /\ fs' = IF /\ walk.current_time - fs[f].mtime > walk.max_age_seconds
                          /\ f \notin locked
                       THEN [fs EXCEPT ![f] = NoFile]
                       ELSE fs
    /\ UNCHANGED <<now, nticks, locked, sweep, redis, task, ncalls, hist, workload, sched>>

\* the for loop is exhausted: the function returns, the route answers
cleanup_old_return ==
    /\ walk.pc = "walk" /\ walk.cur = NoPath /\ walk.todo = {}
    /\ walk' = [walk EXCEPT !.pc = "done", !.status = 200]
    /\ UNCHANGED <<now, nticks, fs, locked, sweep, redis, task, ncalls, hist, workload, sched>>

cleanup_old_cache_files ==
    \/ cleanup_old_is_file
    \/ cleanup_old_unlink
    \/ cleanup_old_return

\* POST /cache/clear-all?confirm=true, lines 62-80
clear_all_cache ==
    /\ walk.pc # "walk"
    /\ LET cm == rglob("cache")
           vm == rglob("converted")
       IN \E D \in Unlinked(cm), E \in Unlinked(vm) :
            fs' = [p \in Paths |->
                     IF p \in D \/ (cm \cap locked = {} /\ p \in E)
                     THEN NoFile ELSE fs[p]]
    /\ UNCHANGED <<now, nticks, locked, sweep, redis, task, ncalls, hist, workload, sched, walk>>

(***************************************************************************)
(* The sweep on its own, over directories left by earlier runs.            *)
(***************************************************************************)
SweepPaths ==
    {CachePath(md5("/data/a.docx"), ".docx"), CachePath(md5("/data/b.csv"), ".csv"),
     [dir |-> "converted", stem |-> md5("/data/a.docx"), suffix |-> ".pdf"]}
\* the files differ in size
SweepSize(p) == IF p.dir = "converted" THEN 3 ELSE IF p.suffix = ".csv" THEN 2 ELSE 1
SweepSizes == {SweepSize(p) : p \in SweepPaths}
\* modification times just over, at and just under one hour before T0
SweepMtimes == {T0 - SecondsPerHour + d : d \in {-1, 0, 1}}

InitSweep ==
    /\ now = T0
    /\ nticks = 0
    /\ fs \in {[p \in Paths |-> IF p \in SweepPaths THEN g[p] ELSE NoFile] :
                 g \in {h \in [SweepPaths -> [mtime : SweepMtimes, size : SweepSizes,
                                              complete : {TRUE}, ver : {0}]
                                               \cup {NoFile}] :
                          \A p \in SweepPaths : h[p] # NoFile => h[p].size = SweepSize(p)}}
    /\ locked \in {{}} \cup {{q} : q \in SweepPaths}
    /\ sweep = IdleSweep
    /\ redis = [k \in Keys |-> NoRec]
    /\ task = [r \in Tasks |-> IdleTask]
    /\ ncalls = 0
    /\ hist = [s \in Sources |-> [seen |-> FALSE, last |-> NoRes]]
    /\ workload = {}
    /\ sched = StartedScheduler
    /\ walk = IdleWalk

\* the clock is read by a running sweep only
NextSweep ==
    \/ sweep.pc \notin {"idle", "done"} /\ \E d \in ClockSteps : Tick(d)
    \/ cleanup_call
    \/ cleanup_step
    \/ \E s \in {"/data/a.docx", "/data/b.csv"} : delete_file_cache(None, s)
    \/ clear_all_cache

SpecSweep == InitSweep /\ [][NextSweep]_vars

(***************************************************************************)
(* The service: requests and the cache routes; requests and the on-demand  *)
(* sweep; requests and the scheduler; requests and the clock.  In all but  *)
(* the last the clock stands still, so the timeout of the converter, which *)
(* compares clock readings, is never enabled and is left out of the        *)
(* next-state relation.                                                    *)
(***************************************************************************)
\* what the clients of one run ask for: one document, shared by all requests,
\* or the two sources that are refused
Workloads ==
    {{s} : s \in Sources \ {"/data/./a.docx", "/data/none.docx", "http://h/x"}}
       \cup {{"/data/none.docx", "http://h/x"}}
\* one local document asked for under two spellings of its path, or one
\* remote document
Spellings == {{"/data/a.docx", "/data/./a.docx"}, {"http://h/p"}}

InitWith(W) ==
    /\ now = T0
    /\ nticks = 0
    /\ fs = [p \in Paths |-> NoFile]
    /\ locked = {}
    /\ sweep = IdleSweep
    /\ redis = [k \in Keys |-> NoRec]
    /\ task = [r \in Tasks |-> IdleTask]
    /\ ncalls = 0
    /\ hist = [s \in Sources |-> [seen |-> FALSE, last |-> NoRes]]
    /\ workload \in W
    /\ sched = StartedScheduler
    /\ walk = IdleWalk

Init == InitWith(Workloads)

Next ==
    \/ \E r \in Tasks : StartRequest(r)
    \/ \E r \in Tasks : task_step(r)
    \/ \E r \in Tasks : soffice_exit(r)
    \/ \E url \in UrlChoices(workload), path \in PathChoices(workload) :
          delete_file_cache(url, path)
    \/ clear_all_cache

Spec == Init /\ [][Next]_vars

\* requests alone, for the documents with more than one spelling
InitSpellings == InitWith(Spellings)

NextRequests ==
    \/ \E r \in Tasks : StartRequest(r)
    \/ \E r \in Tasks : task_step(r)
    \/ \E r \in Tasks : soffice_exit(r)

SpecSpellings == InitSpellings /\ [][NextRequests]_vars

\* requests and the on-demand sweep
NextCleanup ==
    \/ \E h \in MaxAgeChoices : cleanup_cache(h)
    \/ cleanup_old_cache_files
    \/ \E r \in Tasks : StartRequest(r)
    \/ \E r \in Tasks : task_step(r)
    \/ \E r \in Tasks : soffice_exit(r)

SpecCleanup == Init /\ [][NextCleanup]_vars

\* requests and the scheduler
NextDaily ==
    \/ \E j \in Jobs : job_due(j)
    \/ daily_recalculation
    \/ weekly_maintenance
    \/ \E r \in Tasks : StartRequest(r)
    \/ \E r \in Tasks : task_step(r)
    \/ \E r \in Tasks : soffice_exit(r)

SpecDaily == Init /\ [][NextDaily]_vars

NextTimed ==
    \/ Tick(Overrun)
    \/ \E r \in Tasks : StartRequest(r)
    \/ \E r \in Tasks : task_step(r)
    \/ \E r \in Tasks : lo_timeout(r)
    \/ \E r \in Tasks : soffice_exit(r)

SpecTimed == Init /\ [][NextTimed]_vars

\* two different documents requested side by side, with the clock
Parallel == {{"/data/b.csv", "http://h/r.docx"}}

InitParallel == InitWith(Parallel)

\* the clock is followed only while a converter runs
ConverterOverrun == (\E r \in Tasks : task[r].proc = "running") /\ Tick(Overrun)

NextParallel ==
    \/ ConverterOverrun
    \/ \E r \in Tasks : StartRequest(r)
    \/ \E r \in Tasks : task_step(r)
    \/ \E r \in Tasks : lo_timeout(r)
    \/ \E r \in Tasks : soffice_exit(r)

SpecParallel == InitParallel /\ [][NextParallel]_vars

\* the on-demand sweep on the event loop and a sweep on the scheduler's
\* thread, over directories left by earlier runs; the clock stands still
NextOnDemand ==
    \/ \E h \in MaxAgeChoices : cleanup_cache(h)
    \/ cleanup_old_cache_files
    \/ \E h \in MaxAgeChoices : cleanup_start(h, DailyTimeoutSeconds)
    \/ cleanup_walk

SpecOnDemand == InitSweep /\ [][NextOnDemand]_vars

\* requests a cache lifetime apart: the clock advances past the expiry of
\* the index records and past the edit of the sources
Expiry == CacheTtl + 1

NextStale ==
    \/ Tick(Expiry)
    \/ \E r \in Tasks : StartRequest(r)
    \/ \E r \in Tasks : task_step(r)
    \/ \E r \in Tasks : lo_timeout(r)
    \/ \E r \in Tasks : soffice_exit(r)
    \/ \E r \in Tasks : soffice_write(r)

SpecStale == InitParallel /\ [][NextStale]_vars

\* the requests with the blocking variant of the html converter call
NextBlocking ==
    \/ \E r \in Tasks : StartRequest(r)
    \/ \E r \in Tasks : task_step(r)
    \/ \E r \in Tasks : soffice_exit(r)
    \/ \E r \in Tasks : convert_with_libreoffice(r)

SpecBlocking == InitParallel /\ [][NextBlocking]_vars

\* requests, the scheduler and the calls that start and stop it
NextLifecycle ==
    \/ start_scheduler
    \/ stop_scheduler
    \/ run_scheduler_exit
    \/ \E j \in Jobs : job_due(j)
    \/ daily_recalculation
    \/ weekly_maintenance
    \/ \E r \in Tasks : StartRequest(r)
    \/ \E r \in Tasks : task_step(r)
    \/ \E r \in Tasks : soffice_exit(r)

SpecLifecycle == InitSpellings /\ [][NextLifecycle]_vars

\* the sweep is on its own thread and is always scheduled
SpecSweepFair == SpecSweep /\ WF_vars(cleanup_step)

(***************************************************************************)
(* Properties of the pipeline.                                             *)
(***************************************************************************)
\* the positions of a request inside resolve, and after resolve has returned
InResolve == {"copy_check", "copy_open", "copy_write", "copy_stat", "copy_index", "copy_expire",
              "dl_check", "dl_fetch", "dl_index"}
AfterResolve == {"convert", "pdf_wait", "lo_wait", "render", "log", "done"}
ResolveFailed(t) == t.pc = "failed" /\ t.err.at \in InResolve
\* the route has refused the request
RouteRejected(t) == t.pc = "failed" /\ t.err.at = "route"
\* the request has been handed to an entry point
InResolveCall(t) == t.pc # "idle" /\ ~RouteRejected(t)
ResolveReturned(t) == t.pc \in AfterResolve \/ (t.pc = "failed" /\ t.err.at \in AfterResolve)
ConvertReturned(t) == t.pc \in {"log", "done"} \/ (t.pc = "failed" /\ t.err.at = "log")
\* the conversion step of the request is running
Converting(t) == t.pc \in {"pdf_wait", "lo_wait", "render"}
\* the call of convert that request t makes is a passthrough case
Passthrough(t) ==
    \/ t.fmt = "pdf" /\ t.file_path.suffix = ".pdf"
    \/ t.fmt = "html" /\ t.file_path.suffix \in {".html", ".htm"}
\* CONVERTED_DIR / "<fingerprint>.<fmt>"
OutputOf(t) == [dir |-> "converted", stem |-> md5(SourceOf(t.source)), suffix |-> "." \o t.fmt]

\* C1: every convert call that returns, of an entry that is not already in
\* the format asked for, returns the path determined by the
\* fingerprint and the format, so all calls for one pair return the same
\* path; a call that found the output on disk has invoked neither the
\* converter nor a renderer, and a call that did not find it has invoked
\* exactly one.
C1_ConversionMemoization ==
    \A r \in Tasks :
       (ConvertReturned(task[r]) /\ ~Passthrough(task[r])) =>
          /\ task[r].output_path = OutputOf(task[r])
          /\ task[r].memo => task[r].inv = 0
          /\ ~task[r].memo => task[r].inv = 1

\* two finished requests for the same pair: the first converted, the second
\* found the output and returned the same path without an invocation
C1_Witness ==
    \E r, q \in Tasks :
       /\ r # q
       /\ task[r].pc = "done" /\ task[q].pc = "done"
       /\ task[r].source = task[q].source /\ task[r].fmt = task[q].fmt
       /\ ~task[r].memo /\ task[r].inv = 1
       /\ task[q].memo /\ task[q].inv = 0
       /\ task[r].output_path = task[q].output_path
       /\ exists(task[q].output_path)

\* C2: a resolve of a source no request has asked for before, running alone,
\* returns cache_hit = false after writing the cache file; a resolve that
\* starts after an earlier resolve of the same source has returned, and finds
\* the record and the cached file in place, returns cache_hit = true and the
\* same path, and writes nothing.
C2_CacheIdempotence ==
    \A r \in Tasks :
       /\ (/\ task[r].first
           /\ \A q \in Tasks \ {r} : task[q] = IdleTask
           /\ ResolveReturned(task[r]))
             => ~task[r].cache_hit /\ task[r].wrote
       /\ (task[r].prior # NoRes /\ task[r].intact)
             => /\ ResolveReturned(task[r])
                /\ task[r].cache_hit
                /\ task[r].file_path = task[r].prior.path
                /\ ~task[r].wrote

\* C3: no two requests are in the conversion step for the same output at the
\* same time.
C3_AtMostOneConversion ==
    \A r, q \in Tasks :
       (r # q /\ Converting(task[r]) /\ Converting(task[q]))
          => task[r].output_path # task[q].output_path

\* C4: while a request is between resolve and the end of the read of its
\* cache file, the cache file is on disk; while it is between convert and
\* the stat of the output, the output is on disk; no request fails on a
\* missing file.
C4_SweepDoesNotDisrupt ==
    \A r \in Tasks :
       /\ (task[r].pc \in {"convert", "render"} \/ task[r].proc = "running")
             => exists(task[r].file_path)
       /\ task[r].pc = "log" => exists(task[r].output_path)
       /\ task[r].pc = "failed"
             => task[r].err.kind \notin {"FileNotFoundError", "RenderFailed"}

\* C5: the step a convert call takes once its converter has been running for
\* longer than the timeout is the abort with ConversionTimeout, and the
\* converter has been killed.
C5_ConverterTimeout ==
    [][\A r \in Tasks :
         (/\ task[r].proc = "running"
          /\ now - task[r].ptime > SubprocessTimeout
          /\ task'[r] # task[r])
            => /\ task'[r].pc = "failed"
               /\ task'[r].err.kind = "ConversionTimeout"
               /\ task'[r].proc = "killed"]_vars

\* a source resolve refuses: its extension is outside the allow-list, or it
\* is a local path that is missing
BadExtension(s) == Suffix(FileName(s)) \notin SUPPORTED_EXTENSIONS
Missing(s) == s \in LocalPaths /\ ~SourceExists(s)

\* C6: for a source with an extension outside the allow-list and for a
\* missing local path, no file of its fingerprint is in the cache directory
\* and no record is in the index, at any time; a request for it does not get
\* past resolve and writes nothing; it fails with NotFound when the local
\* path is missing, and otherwise with UnsupportedFormat (a remote one also
\* with a failed download).
C6_ValidationLeavesCacheUntouched ==
    /\ \A s \in Sources :
          (BadExtension(s) \/ Missing(s)) =>
             /\ redis[generate_cache_key(s)] = NoRec
             /\ \A p \in Paths : p.stem = md5(s) => ~exists(p)
    /\ \A r \in Tasks :
          LET t == task[r] IN
          (InResolveCall(t) /\ (BadExtension(t.source) \/ Missing(t.source))) =>
             /\ t.pc \in {"copy_check", "dl_check", "dl_fetch", "failed"}
             /\ ~t.wrote
             /\ t.pc = "failed" =>
                  t.err.kind \in IF Missing(t.source) THEN {"NotFound"}
                                  ELSE IF IsUrl(t.source)
                                       THEN {"UnsupportedFormat", "DownloadFailed",
                                             "ConnectionFailed"}
                                  ELSE {"UnsupportedFormat"}

\* a missing local path refused with NotFound and a downloaded .exe refused
\* with UnsupportedFormat, the cache directory and the index empty
C6_Witness ==
    /\ \E r \in Tasks :
          /\ task[r].pc = "failed" /\ task[r].err.kind = "NotFound"
          /\ task[r].source = "/data/none.docx"
    /\ \E r \in Tasks :
          /\ task[r].pc = "failed" /\ task[r].err.kind = "UnsupportedFormat"
          /\ task[r].source = "http://h/x" /\ task[r].err.at = "dl_fetch"
    /\ \A p \in Paths : ~exists(p)
    /\ \A k \in Keys : redis[k] = NoRec

\* the errors of the re-fetch itself
RefetchErrors == {"DownloadFailed", "ConnectionFailed", "WriteFailed", "FileNotFoundError"}

\* C7: a resolve that finds a record in the index whose cached file is gone
\* does not fail on the lookup; when it returns, it returns cache_hit = false
\* after writing the file again, and the path it returns exists.
C7_StaleEntriesAreMisses ==
    \A r \in Tasks :
       task[r].stale =>
          /\ ResolveFailed(task[r]) => task[r].err.kind \in RefetchErrors
          /\ ResolveReturned(task[r])
                => ~task[r].cache_hit /\ task[r].wrote /\ task[r].ret_exists

(***************************************************************************)
(* Properties of the sweep.                                                *)
(***************************************************************************)
FileAge(f) == sweep.current_time - fs[f].mtime
\* the files whose stat or unlink failed
Failed(sw) == {sw.failed_deletions[i] : i \in 1..Len(sw.failed_deletions)}

\* C8: a sweep deletes a regular file only if its age, the time at the start
\* of the sweep minus the modification time, is strictly greater than
\* max_age_hours * 3600 seconds; a file it examines whose age is equal to or
\* below the threshold is retained.
C8_SweeperAgeBoundary ==
    [][\A f \in Paths :
         /\ (f \in sweep'.deleted_files /\ f \notin sweep.deleted_files)
              => /\ exists(f)
                 /\ FileAge(f) > sweep.max_age_seconds
                 /\ fs'[f] = NoFile
         /\ (sweep.cur = f /\ sweep'.cur = NoPath /\ exists(f)
               /\ FileAge(f) <= sweep.max_age_seconds)
              => /\ fs'[f] = fs[f]
                 /\ sweep'.deleted_files = sweep.deleted_files]_vars

\* a finished sweep that deleted a file and kept an examined file whose age
\* is exactly the threshold
C8_Witness ==
    /\ sweep.pc = "done" /\ ~sweep.result.error
    /\ sweep.deleted_files # {}
    /\ \E f \in sweep.listed :
         /\ exists(f)
         /\ FileAge(f) = sweep.max_age_seconds
         /\ f \notin Failed(sweep)

C10_SweeperTimeout ==
    /\ [][/\ (sweep.cur = NoPath /\ sweep'.cur # NoPath)
               => now - sweep.start_time <= sweep.timeout_seconds
          /\ (sweep.timed_out /\ sweep'.pc # "cache")
               => /\ sweep'.timed_out
                  /\ sweep'.cur = NoPath
                  /\ sweep'.deleted_files = sweep.deleted_files
                  /\ sweep'.failed_deletions = sweep.failed_deletions]_vars
    /\ []((sweep.pc = "done" /\ ~sweep.result.error) =>
            sweep.result.deleted_count = Cardinality(sweep.deleted_files))
    /\ (sweep.timed_out ~> sweep.pc = "done")

\* a sweep cut short by the timeout after it had deleted a file, with an old
\* file left behind
C10_Witness ==
    /\ sweep.pc = "done" /\ ~sweep.result.error
    /\ sweep.timed_out
    /\ sweep.result.deleted_count = 1
    /\ \E f \in sweep.listed \ Failed(sweep) :
         exists(f) /\ FileAge(f) > sweep.max_age_seconds

(***************************************************************************)
(* Properties of the scheduler.                                            *)
(***************************************************************************)
\* C11: the scheduler thread is alive whatever the jobs have done, and a job
\* that is due is run by it: a step that runs a job leaves the thread alive.
C11_SchedulerNeverDies ==
    /\ [](sched.alive)
    /\ [][\A j \in Jobs :
            sched'.last[j] # sched.last[j] => sched'.alive]_vars

\* C12: when an exception has escaped the body of the sweep, the call has
\* returned a result, and the result is all zero: no file deleted, no byte
\* deleted, no failure.
C12_SweepFailureContainment ==
    (sweep.pc = "done" /\ sweep.result.error) =>
       /\ sweep.result.deleted_count = 0
       /\ sweep.result.deleted_size = 0
       /\ sweep.result.failed_count = 0

\* C13: convert to pdf of a cache entry with the extension .pdf, and convert
\* to html of an entry with the extension .html or .htm, returns the path of
\* the entry itself in one step that starts no converter and no renderer and
\* leaves every file as it is; the request has then invoked none.
C13_Passthrough ==
    /\ [][\A r \in Tasks :
            (task[r].pc = "convert" /\ Passthrough(task[r]) /\ task'[r] # task[r]) =>
               /\ task'[r].pc = "log"
               /\ task'[r].output_path = task[r].file_path
               /\ task'[r].inv = task[r].inv
               /\ task'[r].proc = task[r].proc
               /\ fs' = fs]_vars
    /\ [](\A r \in Tasks :
            (ConvertReturned(task[r]) /\ Passthrough(task[r])) =>
               /\ task[r].output_path = task[r].file_path
               /\ task[r].output_path.dir = "cache"
               /\ task[r].inv = 0
               /\ task[r].proc = "none")
C13_Witness ==
    \E r \in Tasks :
       /\ task[r].pc = "done" /\ Passthrough(task[r])
       /\ task[r].output_path = task[r].file_path
       /\ Entries("converted") = {}

\* the cache file p is the file of an index record that has not expired
Indexed(p) ==
    \E s \in Sources :
       LET k == generate_cache_key(s) IN
         /\ Live(k)
         /\ \/ redis[k].type = "hash" /\ redis[k].path = p
            \/ redis[k].type = "string" /\ p = CachePath(md5(s), Suffix(redis[k].filename))

\* C14: a cache file that exists and has a live index record is not written
\* again: a step that changes it removes it.
C14_CacheEntriesImmutable ==
    [][\A p \in Paths :
         (p.dir = "cache" /\ exists(p) /\ Indexed(p) /\ fs'[p] # fs[p]) =>
            fs'[p] = NoFile]_vars

\* the source can be resolved: a URL or an existing file, of a supported type
Resolvable(src) ==
    /\ IsUrl(src) \/ SourceExists(src)
    /\ validate_file_extension(FileName(src))
\* {cache_root}/{fingerprint}{extension}
EntryPath(src) == CachePath(md5(SourceOf(src)), Suffix(FileName(src)))

\* C15: of two requests for one resolvable source that both started before
\* any resolve of the source had returned, neither fails in resolve other
\* than on the answer of the remote server; when both have returned from
\* resolve they hold the same path, the path determined by the fingerprint
\* and the extension, and the index record of the fingerprint points to it.
C15_ConcurrentResolvesConverge ==
    \A r, q \in Tasks :
       (/\ r # q
        /\ task[r].pc # "idle" /\ task[q].pc # "idle"
        /\ task[r].source = task[q].source
        /\ Resolvable(task[r].source)
        /\ task[r].prior = NoRes /\ task[q].prior = NoRes) =>
          /\ ResolveFailed(task[r]) =>
                task[r].err.kind \in {"DownloadFailed", "ConnectionFailed", "WriteFailed"}
          /\ (ResolveReturned(task[r]) /\ ResolveReturned(task[q])) =>
                /\ task[r].file_path = EntryPath(task[r].source)
                /\ task[q].file_path = task[r].file_path
                /\ Indexed(task[r].file_path)

\* C16: a request that has failed in resolve or in convert has reported the
\* failure through log_error exactly once.
C16_ErrorsReportedOnce ==
    \A r \in Tasks :
       (task[r].pc = "failed" /\ task[r].err.at \in InResolve \cup AfterResolve)
          => task[r].reported = 1

\* C17: a request that has succeeded has called log_conversion exactly once,
\* a request that has not, or has failed, has never called it, and the call
\* is made in the step that ends a request whose resolve and convert have
\* both returned.
C17_LogConversionOnce ==
    /\ [](\A r \in Tasks :
            /\ task[r].pc = "done" => task[r].logged = 1
            /\ task[r].pc # "done" => task[r].logged = 0)
    /\ [][\A r \in Tasks :
            task'[r].logged > task[r].logged =>
               /\ ConvertReturned(task[r]) /\ task[r].pc = "log"
               /\ task'[r].pc = "done"
               /\ task'[r].logged = task[r].logged + 1]_vars
C17_Witness ==
    \E r, q \in Tasks :
       /\ task[r].pc = "done" /\ task[r].logged = 1
       /\ task[q].pc = "failed" /\ ~RouteRejected(task[q]) /\ task[q].logged = 0

\* the canonical identifier of a descriptor: the URL string as it is, the
\* resolved absolute path of a local path
Canonical(src) == IF src = "/data/./a.docx" THEN "/data/a.docx" ELSE src
\* the fingerprint in an index key
KeyFingerprint(k) == k[2]

\* C18: the cache file a request works with is named by the digest of the
\* canonical identifier of its source, so requests whose sources have one
\* canonical identifier work with one file name; an index record is stored
\* under the key made of that same digest, and the file it stands for is
\* named by the digest in its key.
C18_FingerprintDeterminism ==
    /\ \A r \in Tasks :
          task[r].file_path # NoPath =>
             task[r].file_path.stem = md5(Canonical(task[r].source))
    /\ \A r, q \in Tasks :
          (/\ task[r].file_path # NoPath /\ task[q].file_path # NoPath
           /\ Canonical(task[r].source) = Canonical(task[q].source)) =>
             task[r].file_path = task[q].file_path
    /\ \A s \in Sources :
          LET k == generate_cache_key(s) IN
          redis[k] # NoRec =>
             /\ s = Canonical(s)
             /\ k = <<"aview:file:", md5(s)>>
             /\ redis[k].type = "hash" => redis[k].path.stem = KeyFingerprint(k)
             /\ \A r \in Tasks :
                   (Canonical(task[r].source) = s /\ task[r].file_path # NoPath) =>
                      task[r].file_path.stem = KeyFingerprint(k)
C18_Witness ==
    \E r, q \in Tasks :
       /\ task[r].source # task[q].source
       /\ Canonical(task[r].source) = Canonical(task[q].source)
       /\ ResolveReturned(task[r]) /\ ResolveReturned(task[q])
       /\ ~task[r].cache_hit /\ task[q].cache_hit
       /\ task[r].file_path = task[q].file_path
       /\ redis[generate_cache_key(Canonical(task[r].source))] # NoRec

\* the parameters name no source, or name two
NotOneSource(url, path) == (url = None) = (path = None)

\* C19: a request to convert that gives both a url and a path, or neither,
\* is refused by the route: it never enters resolve, writes no file, starts
\* no converter, and the step that takes it in leaves the files and the
\* index as they are; a request to delete the cache of a file that gives
\* both or neither deletes nothing.
C19_ExactlyOneSource ==
    /\ [](\A r \in Tasks :
            (task[r].pc # "idle" /\ NotOneSource(task[r].url, task[r].path)) =>
               /\ RouteRejected(task[r])
               /\ task[r].file_path = NoPath /\ ~task[r].wrote
               /\ task[r].inv = 0 /\ task[r].proc = "none")
    /\ [][\A r \in Tasks :
            (task'[r] # task[r] /\ NotOneSource(task'[r].url, task'[r].path)) =>
               /\ RouteRejected(task'[r])
               /\ fs' = fs /\ redis' = redis]_vars
    /\ [][\A url \in Urls \cup {None}, path \in LocalPaths \cup {None} :
            (NotOneSource(url, path) /\ delete_file_cache(url, path)) =>
               fs' = fs /\ redis' = redis]_vars
C19_Witness ==
    \E r \in Tasks :
       /\ RouteRejected(task[r])
       /\ task[r].url # None /\ task[r].path # None
       /\ validate_url(task[r].url) /\ validate_path(task[r].path)
       /\ ncalls = MaxCalls
       /\ \A p \in Paths : ~exists(p)

\* the kind of error a failure of the remote resolve is
RemoteErrorKind(kind) ==
    CASE kind \in {"DownloadFailed", "ConnectionFailed"} -> "network"
      [] kind = "WriteFailed" -> "storage"
      [] kind = "UnsupportedFormat" -> "validation"
      [] OTHER -> "other"

\* C20: two requests that failed in the fetch of the remote resolve on
\* failures of different kinds (network, storage, validation) have been
\* answered with different errors.
C20_RemoteErrorKindsApart ==
    \A r, q \in Tasks :
       (/\ task[r].pc = "failed" /\ task[r].err.at = "dl_fetch"
        /\ task[q].pc = "failed" /\ task[q].err.at = "dl_fetch"
        /\ RemoteErrorKind(task[r].err.kind) # RemoteErrorKind(task[q].err.kind)) =>
          task[r].err.status # task[q].err.status

\* the request has failed in convert
ConvertFailed(t) ==
    t.pc = "failed" /\ t.err.at \in {"convert", "pdf_wait", "lo_wait", "render"}

\* C21: a request in convert goes on to the passthrough or the found output
\* (convert returned), to the running conversion, or to failure; a running
\* conversion ends returned or failed; a request that failed in convert
\* carries its error and does nothing more, its task changes only when a
\* new request is taken in; a converter or renderer is started only from
\* the start of convert, so at most once in a request.
C21_ConversionStateMachine ==
    /\ [](\A r \in Tasks :
            /\ task[r].inv <= 1
            /\ ConvertFailed(task[r]) => task[r].err.status = 500)
    /\ [][\A r \in Tasks :
            task'[r] # task[r] =>
               /\ task[r].pc = "convert" =>
                     task'[r].pc \in {"log", "pdf_wait", "lo_wait", "render", "failed"}
               /\ Converting(task[r]) =>
                     task'[r].pc \in {task[r].pc, "log", "failed"}
               /\ ConvertFailed(task[r]) => StartRequest(r)
               /\ task'[r].inv > task[r].inv =>
                     task[r].pc = "convert" /\ task[r].inv = 0]_vars
C21_Witness ==
    \E r, q \in Tasks :
       /\ ConvertFailed(task[r]) /\ task[r].err.kind = "ConversionTimeout"
       /\ task[r].inv = 1 /\ task[r].proc = "killed"
       /\ ConvertFailed(task[q]) /\ task[q].err.kind = "NoConverter" /\ task[q].inv = 0

(***************************************************************************)
(* C22: requests for different fingerprints proceed in parallel.  While    *)
(* one request's fetch or conversion is in progress, even a conversion     *)
(* that runs until its timeout, a request for another document that has a  *)
(* step to take is able to take it, so it can complete before the first    *)
(* one finishes.                                                           *)
(***************************************************************************)
InProgress(t) ==
    t.pc \in (InResolve \ {"copy_expire"}) \cup {"convert", "pdf_wait", "lo_wait", "render"}

Ready(t) ==
    \/ t.pc \in InResolve \cup {"convert", "render", "log"}
    \/ t.pc \in {"pdf_wait", "lo_wait"} /\ t.proc # "running"

C23_DailySweepOrdering ==
    sched.last["daily"] # "none" =>
       /\ sweep.pc # "idle"
       /\ sweep.max_age_seconds = DailyMaxAgeHours * SecondsPerHour

(***************************************************************************)
(* C24: the on-demand sweep does not raise to its caller, whatever happens *)
(* to single files: when it has returned, the route answers 200 and every  *)
(* file of its listing has been processed.                                 *)
(***************************************************************************)
C24_OnDemandSweepTolerant ==
    walk.pc = "done" => walk.status = 200 /\ walk.todo = {}

(***************************************************************************)
(* C25: the rendering of a CSV file fails on its encoding only if no       *)
(* encoding of the list decodes the file; a file that is not valid UTF-8   *)
(* but valid in a later encoding of the list is rendered.                  *)
(***************************************************************************)
C25_MultiEncodingRead ==
    \A r \in Tasks :
       (task[r].pc = "failed" /\ task[r].err.kind = "UnicodeDecodeError")
          => task[r].content \cap Encodings = {}

(***************************************************************************)
(* C26: a request does not fail in an in-process renderer: the failure of  *)
(* a renderer is followed by one run of the external converter, and only   *)
(* the failure of that run fails the request.                              *)
(***************************************************************************)
C26_RendererFallback ==
    \A r \in Tasks :
       (task[r].pc = "failed" /\ task[r].err.at = "render")
          => task[r].proc \in {"exit_fail", "exit_noout", "killed"}

(***************************************************************************)
(* C27: every record of the cache index has an expiry, at most 24 hours    *)
(* ahead, in every state: between the steps of a resolve and after a       *)
(* failure between them.                                                   *)
(***************************************************************************)
C27_RecordHasTtl ==
    \A k \in Keys :
       redis[k] # NoRec =>
          redis[k].expires # Never /\ redis[k].expires <= now + CacheTtl

(***************************************************************************)
(* C28: when an entry point returns the URL /aview/{format}/{name}, the    *)
(* file the serving route looks for under that name, in the converted      *)
(* directory, exists; this holds for a passthrough too.                    *)
(***************************************************************************)
\* serve_pdf / serve_html (aview_routes.py 53-77): Path(CONVERTED_DIR) / filename
ServedPath(output_path) ==
    [dir |-> "converted", stem |-> output_path.stem, suffix |-> output_path.suffix]

C28_ReturnedUrlServable ==
    [][\A r \in Tasks :
         (task[r].pc = "log" /\ task'[r].pc = "done") =>
            fs'[ServedPath(task'[r].output_path)] # NoFile]_vars

(***************************************************************************)
(* C29: a sweep that the timeout did not cut short and that counted no     *)
(* failure leaves no file older than the threshold in the cache directory  *)
(* or the converted directory; a step of the sweep removes no file that is *)
(* not older than the threshold; every file it removes is added once to    *)
(* deleted_files and its size once to deleted_size, a step that removes    *)
(* none leaves both as they are, and the result reports the number of      *)
(* those files and the sum of their sizes.                                 *)
(***************************************************************************)
Removed == {f \in Paths : fs[f] # NoFile /\ fs'[f] = NoFile}

C29_SweepCompleteness ==
    /\ [](/\ sweep.pc = "done" /\ ~sweep.timed_out /\ sweep.result.failed_count = 0
          => /\ \A f \in Paths :
                  exists(f) => sweep.current_time - fs[f].mtime <= sweep.max_age_seconds
             /\ sweep.result.deleted_count = Cardinality(sweep.deleted_files)
             /\ sweep.result.deleted_size = sweep.deleted_size)
    /\ [][(sweep' # sweep /\ sweep.pc # "idle") =>
            /\ Cardinality(Removed) <= 1
            /\ \A f \in Removed :
                  /\ sweep.current_time - fs[f].mtime > sweep.max_age_seconds
                  /\ f \notin sweep.deleted_files
                  /\ sweep'.deleted_files = sweep.deleted_files \cup {f}
                  /\ sweep'.deleted_size = sweep.deleted_size + fs[f].size
            /\ Removed = {} =>
                  /\ sweep'.deleted_files = sweep.deleted_files
                  /\ sweep'.deleted_size = sweep.deleted_size]_vars

\* a finished sweep, not cut short and without a failure, that removed a
\* cache file and a converted file of different sizes and kept a file
C29_Witness ==
    /\ sweep.pc = "done" /\ ~sweep.timed_out /\ sweep.result.failed_count = 0
    /\ sweep.result.deleted_count = 2
    /\ sweep.result.deleted_size = 4
    /\ \E f, g \in sweep.deleted_files : f.dir = "cache" /\ g.dir = "converted"
    /\ \E f \in sweep.listed : exists(f)

(***************************************************************************)
(* C30: a sweep does not delete a file that was written less than          *)
(* max_age_hours before the sweep started.  The directories are empty at   *)
(* the start, at time T0, so every file was written at T0 or later: a      *)
(* sweep that removes a file started more than max_age_hours after T0.     *)
(***************************************************************************)
C30_FreshFileSurvives ==
    [][walk' # walk =>
         \A f \in Paths :
            (fs[f] # NoFile /\ fs'[f] = NoFile) =>
               walk.current_time - T0 > walk.max_age_seconds]_vars

(***************************************************************************)
(* C31: the output a convert call returns was generated from the bytes     *)
(* that the cache file of its fingerprint holds when the call returns.     *)
(***************************************************************************)
C31_OutputNeverStale ==
    [][\A r \in Tasks :
         (task[r].pc # "log" /\ task'[r].pc = "log" /\ ~Passthrough(task'[r])) =>
            LET out == task'[r].output_path
                in == task'[r].file_path
            IN (fs'[out] # NoFile /\ fs'[in] # NoFile) => fs'[out].ver = fs'[in].ver]_vars

(***************************************************************************)
(* C32: while the converter of a request reads the cache file that resolve *)
(* returned to it, that file holds the complete bytes of the source: no    *)
(* other resolve call has truncated it or is still rewriting it.           *)
(***************************************************************************)
Reading(t) == t.pc \in {"pdf_wait", "lo_wait"} /\ t.proc = "running"

C32_NoHalfWrittenCacheFile ==
    \A r \in Tasks :
        (Reading(task[r]) /\ exists(task[r].file_path)) => fs[task[r].file_path].complete

(***************************************************************************)
(* C33: when convert returns an output because the file is already there,  *)
(* the file is a finished output: no converter is still writing it and no  *)
(* failed or interrupted conversion has left it partial.                   *)
(***************************************************************************)
C33_ShortcutReturnsFinishedOutput ==
    [][\A r \in Tasks :
         (task[r].pc = "convert" /\ task'[r].pc = "log" /\ ~Passthrough(task'[r])) =>
            fs[task'[r].output_path].complete]_vars

(***************************************************************************)
(* C34: a step of a request changes no cache file and no output file of a  *)
(* fingerprint other than the request's own: every file that a step        *)
(* creates, overwrites, renames or deletes carries the fingerprint of the  *)
(* request that took the step.                                             *)
(***************************************************************************)
Fingerprint(t) == md5(SourceOf(t.source))

C35_SingleSchedulerLoop ==
    /\ sched.threads <= 1
    /\ \A j \in Jobs : sched.registered[j] <= 1

(***************************************************************************)
(* C36: the usage record of a served request names the source of the       *)
(* request: the source_value given to log_conversion is the requested URL  *)
(* for a URL source and the requested path for a local source.             *)
(***************************************************************************)
C36_UsageRecordNamesSource ==
    \A r \in Tasks :
        (task[r].pc = "done" /\ task[r].logged = 1) =>
            task[r].source_value = task[r].source

(***************************************************************************)
(* C37: the result of a sweep says completed_normally exactly when the     *)
(* sweep was not cut short by the timeout, that is when neither loop was   *)
(* left by the break and every listed file was examined.                   *)
(***************************************************************************)
C37_CompletedNormallyExact ==
    (sweep.pc = "done" /\ ~sweep.result.error) =>
        (sweep.result.completed_normally <=> ~sweep.timed_out)
====
